---- MODULE Spec2Model ----
(***************************************************************************)
(* Model of msg-in-png: the chunk type code, the chunk, the PNG container  *)
(* and the command shell that drives them.                                 *)
(*                                                                         *)
(* Representation.  A byte is a number in 0..255 and a byte buffer, a      *)
(* &str and a String are sequences of bytes (a Rust string IS its UTF-8    *)
(* bytes).  A u32 is a record [hi, lo] of two 16-bit halves, so that every *)
(* u32 value (CRCs use all 32 bits) stays inside TLC's 32-bit integers.    *)
(* A Result is [ok |-> TRUE, val |-> v] or [ok |-> FALSE, err |-> kind],   *)
(* an Option is a sequence of length 0 or 1.                               *)
(***************************************************************************)
EXTENDS Integers, Sequences, FiniteSets, TLC

VARIABLES
  value,   \* chunk.rs: the byte slice handed to Chunk::try_from
  chunk,   \* chunk.rs: the current Chunk (Option)
  png,     \* png.rs: the current PNG (Option)
  fs,      \* main.rs: the content of the png files, by path (Option)
  last     \* the last call: its name, its arguments, what it returned, and
           \* what the call before it left (as far as the properties refer to it)

vars == <<value, chunk, png, fs, last>>

----------------------------------------------------------------------------
(* Bounds *)

\* longest chunk sequence the container operations are explored on
MaxChunks == 3

\* longest chunk sequence the shell's encode command is explored on
MaxFileChunks == 2

----------------------------------------------------------------------------
(* Results *)

Ok(v) == [ok |-> TRUE, val |-> v]

Err(e) == [ok |-> FALSE, err |-> e]

Failed(r, e) == (~r.ok) /\ r.err = e

----------------------------------------------------------------------------
(* u32 arithmetic *)

Bit(a, i) == (a \div (2 ^ i)) % 2

XorBit(a, b, i) == ((Bit(a, i) + Bit(b, i)) % 2) * (2 ^ i)

\* exclusive or of two 4-bit values, tabulated
Xor4 ==
  [a \in 0..15 |-> [b \in 0..15 |->
     XorBit(a, b, 0) + XorBit(a, b, 1) + XorBit(a, b, 2) + XorBit(a, b, 3)]]

Xor8(a, b) == 16 * Xor4[a \div 16][b \div 16] + Xor4[a % 16][b % 16]

Xor16(a, b) == Xor8(a % 256, b % 256) + 256 * Xor8(a \div 256, b \div 256)

U32Xor(p, q) == [hi |-> Xor16(p.hi, q.hi), lo |-> Xor16(p.lo, q.lo)]

U32Shr(p, n) ==
  [hi |-> p.hi \div (2 ^ n),
   lo |-> (p.hi % (2 ^ n)) * (2 ^ (16 - n)) + p.lo \div (2 ^ n)]

\* `n as u32` for a usize n (n stays below 2^31 here, so only the split shows)
UsizeAsU32(n) == [hi |-> (n \div 65536) % 65536, lo |-> n % 65536]

\* `u as usize <= n`: a u32 of 2^31 or more exceeds every buffer of the model
U32AsUsizeLeq(u, n) == u.hi < 32768 /\ u.hi * 65536 + u.lo <= n

U32AsUsize(u) == u.hi * 65536 + u.lo

to_be_bytes(u) ==
  <<u.hi \div 256, u.hi % 256, u.lo \div 256, u.lo % 256>>

from_be_bytes(b) == [hi |-> b[1] * 256 + b[2], lo |-> b[3] * 256 + b[4]]

----------------------------------------------------------------------------
(* CRC-32 (ISO-3309): reflected polynomial EDB88320, register all ones *)

CrcPoly == [hi |-> 60856, lo |-> 33568]

\* (the tests c.lo >= 0 here and in HasherUpdate are always true: they make
\* TLC evaluate the register before it goes on to the next step)
RECURSIVE CrcTableEntry(_, _)
CrcTableEntry(c, k) ==
  IF k = 0 \/ ~(c.lo >= 0) THEN c
  ELSE CrcTableEntry(IF c.lo % 2 = 1
                       THEN U32Xor(CrcPoly, U32Shr(c, 1))
                       ELSE U32Shr(c, 1),
                     k - 1)

CrcTable == [n \in 0..255 |-> CrcTableEntry([hi |-> 0, lo |-> n], 8)]

AllOnes == [hi |-> 65535, lo |-> 65535]

\* Hasher::new
HasherNew == AllOnes

\* Hasher::update
RECURSIVE HasherUpdate(_, _)
HasherUpdate(c, bytes) ==
  IF bytes = <<>> \/ ~(c.lo >= 0) THEN c
  ELSE HasherUpdate(U32Xor(CrcTable[Xor8(c.lo % 256, Head(bytes))],
                           U32Shr(c, 8)),
                    Tail(bytes))

\* Hasher::finalize
HasherFinalize(c) == U32Xor(c, AllOnes)

----------------------------------------------------------------------------
(* Strings *)

\* std::str::from_utf8 / String::from_utf8 accept exactly well-formed UTF-8
RECURSIVE Utf8Valid(_)
Utf8Valid(b) ==
  IF b = <<>> THEN TRUE
  ELSE LET h == b[1]
           n == Len(b)
           Cont(i) == i <= n /\ b[i] >= 128 /\ b[i] <= 191
           Rest(k) == Utf8Valid(SubSeq(b, k + 1, n))
       IN  IF h <= 127 THEN Rest(1)
           ELSE IF h >= 194 /\ h <= 223 THEN Cont(2) /\ Rest(2)
           ELSE IF h >= 224 /\ h <= 239
             THEN /\ Cont(2) /\ Cont(3)
                  /\ (h = 224 => b[2] >= 160)
                  /\ (h = 237 => b[2] <= 159)
                  /\ Rest(3)
           ELSE IF h >= 240 /\ h <= 244
             THEN /\ Cont(2) /\ Cont(3) /\ Cont(4)
                  /\ (h = 240 => b[2] >= 144)
                  /\ (h = 244 => b[2] <= 143)
                  /\ Rest(4)
           ELSE FALSE

String_from_utf8(b) == IF Utf8Valid(b) THEN Ok(b) ELSE Err("InvalidEncoding")

\* "Unknown"
StrUnknown == <<85, 110, 107, 110, 111, 119, 110>>

----------------------------------------------------------------------------
(* chunk_type.rs *)

is_ascii_uppercase(b) == b >= 65 /\ b <= 90

is_ascii_lowercase(b) == b >= 97 /\ b <= 122

is_ascii_alphabetic(b) == is_ascii_uppercase(b) \/ is_ascii_lowercase(b)

is_critical(ct) == is_ascii_uppercase(ct.inner[1])

is_public(ct) == is_ascii_uppercase(ct.inner[2])

is_reserved_bit_valid(ct) == is_ascii_uppercase(ct.inner[3])

is_safe_to_copy(ct) == is_ascii_lowercase(ct.inner[4])

is_valid(ct) ==
  IF \E i \in 1..4 : ~is_ascii_alphabetic(ct.inner[i]) THEN FALSE
  ELSE is_reserved_bit_valid(ct)

\* impl TryFrom<[u8; 4]> for ChunkType
ChunkType_try_from(v) ==
  LET chunk_type == [inner |-> v]
  IN  IF is_valid(chunk_type) THEN Ok(chunk_type) ELSE Err("InvalidTypeCode")

\* impl FromStr for ChunkType
ChunkType_from_str(s) ==
  IF Len(s) # 4 THEN Err("WrongLength")
  ELSE IF \E i \in 1..4 : ~is_ascii_alphabetic(s[i]) THEN Err("InvalidCharacter")
  ELSE Ok([inner |-> s])

\* impl Display for ChunkType
ChunkType_to_string(ct) ==
  IF Utf8Valid(ct.inner) THEN ct.inner ELSE StrUnknown

----------------------------------------------------------------------------
(* chunk.rs *)

Chunk_new(chunk_type, data) ==
  [length     |-> UsizeAsU32(Len(data)),
   chunk_type |-> chunk_type,
   data       |-> data,
   crc        |-> HasherFinalize(
                    HasherUpdate(HasherUpdate(HasherNew, chunk_type.inner),
                                 data))]

data_as_string(c) == String_from_utf8(c.data)

Chunk_as_bytes(c) ==
  to_be_bytes(c.length) \o c.chunk_type.inner \o c.data \o to_be_bytes(c.crc)

\* read_exact of n bytes at offset pos succeeds iff n bytes remain
CanRead(buf, pos, n) == pos + n <= Len(buf)

Take(buf, pos, n) == SubSeq(buf, pos + 1, pos + n)

\* as Chunk::try_from, reporting a short data segment as a length mismatch
Chunk_try_fromMutLen(v) ==
  IF ~CanRead(v, 0, 8) THEN Err("UnexpectedEof")
  ELSE
    LET length == from_be_bytes(Take(v, 0, 4))
        ct     == ChunkType_try_from(Take(v, 4, 4))
    IN  IF ~ct.ok THEN Err(ct.err)
        ELSE IF ~U32AsUsizeLeq(length, Len(v) - 12) THEN Err("LengthMismatch")
        ELSE
          LET n   == U32AsUsize(length)
              crc == from_be_bytes(Take(v, 8 + n, 4))
              c   == Chunk_new(ct.val, Take(v, 8, n))
          IN  IF c.crc # crc THEN Err("CrcMismatch") ELSE Ok(c)

\* impl TryFrom<&[u8]> for Chunk
Chunk_try_from(v) ==
  IF ~CanRead(v, 0, 4) THEN Err("UnexpectedEof")
  ELSE IF ~CanRead(v, 4, 4) THEN Err("UnexpectedEof")
  ELSE
    LET length == from_be_bytes(Take(v, 0, 4))
        ct     == ChunkType_try_from(Take(v, 4, 4))
    IN  IF ~ct.ok THEN Err(ct.err)
        ELSE IF ~U32AsUsizeLeq(length, Len(v) - 8) THEN Err("UnexpectedEof")
        ELSE
          LET n == U32AsUsize(length)
          IN  IF ~CanRead(v, 8 + n, 4) THEN Err("UnexpectedEof")
              ELSE
                LET crc == from_be_bytes(Take(v, 8 + n, 4))
                    c   == Chunk_new(ct.val, Take(v, 8, n))
                IN  IF c.length # length THEN Err("LengthMismatch")
                    ELSE IF c.crc # crc THEN Err("CrcMismatch")
                    ELSE Ok(c)

----------------------------------------------------------------------------
(* png.rs *)

STANDARD_HEADER == <<137, 80, 78, 71, 13, 10, 26, 10>>

PNG_from_chunks(chunks) == [signature |-> STANDARD_HEADER, chunks |-> chunks]

\* Vec::remove(index)
VecRemove(v, index) == SubSeq(v, 1, index - 1) \o SubSeq(v, index + 1, Len(v))

append_chunkMutTail(p, c) == [p EXCEPT !.chunks = Append(p.chunks, c)]

append_chunk(p, c) ==
  IF p.chunks # <<>>
    THEN LET last_chunk == p.chunks[Len(p.chunks)]
             popped     == SubSeq(p.chunks, 1, Len(p.chunks) - 1)
         IN  [p EXCEPT !.chunks = Append(Append(popped, c), last_chunk)]
    ELSE [p EXCEPT !.chunks = Append(p.chunks, c)]

\* impl PartialEq for ChunkType
ChunkType_eq(a, b) == a.inner = b.inner

\* the index (from 1) of the first chunk of the type, 0 when there is none
FindFirst(chunks, ct) ==
  IF \E i \in 1..Len(chunks) : ChunkType_eq(chunks[i].chunk_type, ct)
    THEN CHOOSE i \in 1..Len(chunks) :
           /\ ChunkType_eq(chunks[i].chunk_type, ct)
           /\ \A j \in 1..(i - 1) : ~ChunkType_eq(chunks[j].chunk_type, ct)
    ELSE 0

\* as remove_chunk, with Vec::swap_remove in the place of Vec::remove
remove_chunkMutSwap(p, s) ==
  LET ct == ChunkType_from_str(s)
  IN  IF ~ct.ok THEN [res |-> Err(ct.err), png |-> p]
      ELSE LET index == FindFirst(p.chunks, ct.val)
               n     == Len(p.chunks)
           IN  IF index # 0
                 THEN [res |-> Ok(p.chunks[index]),
                       png |-> [p EXCEPT !.chunks =
                                  IF index = n THEN SubSeq(p.chunks, 1, n - 1)
                                  ELSE SubSeq([p.chunks EXCEPT ![index] = p.chunks[n]],
                                              1, n - 1)]]
                 ELSE [res |-> Err("NotFound"), png |-> p]

\* as remove_chunk, returning a copy of the chunk and removing nothing
remove_chunkMutKeep(p, s) ==
  LET ct == ChunkType_from_str(s)
  IN  IF ~ct.ok THEN [res |-> Err(ct.err), png |-> p]
      ELSE LET index == FindFirst(p.chunks, ct.val)
           IN  IF index # 0
                 THEN [res |-> Ok(p.chunks[index]), png |-> p]
                 ELSE [res |-> Err("NotFound"), png |-> p]

\* returns the Result and the container as the call leaves it
remove_chunk(p, s) ==
  LET ct == ChunkType_from_str(s)
  IN  IF ~ct.ok THEN [res |-> Err(ct.err), png |-> p]
      ELSE LET index == FindFirst(p.chunks, ct.val)
           IN  IF index # 0
                 THEN [res |-> Ok(p.chunks[index]),
                       png |-> [p EXCEPT !.chunks = VecRemove(p.chunks, index)]]
                 ELSE [res |-> Err("NotFound"), png |-> p]

RECURSIVE FirstOfType(_, _)
FirstOfType(chunks, ct) ==
  IF chunks = <<>> THEN <<>>
  ELSE IF ChunkType_eq(Head(chunks).chunk_type, ct) THEN <<Head(chunks)>>
  ELSE FirstOfType(Tail(chunks), ct)

\* as chunk_by_type, scanning from the tail
chunk_by_typeMutLast(p, s) ==
  LET ct == ChunkType_from_str(s)
      hits == {i \in 1..Len(p.chunks) : ChunkType_eq(p.chunks[i].chunk_type, ct.val)}
  IN  IF ~ct.ok THEN <<>>
      ELSE IF hits = {} THEN <<>>
      ELSE <<p.chunks[CHOOSE i \in hits : \A j \in hits : j <= i]>>

\* returns an Option
chunk_by_type(p, s) ==
  LET ct == ChunkType_from_str(s)
  IN  IF ~ct.ok THEN <<>> ELSE FirstOfType(p.chunks, ct.val)

RECURSIVE FlatMapAsBytes(_)
FlatMapAsBytes(chunks) ==
  IF chunks = <<>> THEN <<>>
  ELSE Chunk_as_bytes(Head(chunks)) \o FlatMapAsBytes(Tail(chunks))

PNG_as_bytes(p) == p.signature \o FlatMapAsBytes(p.chunks)

\* as ReadChunks, stopping at a chunk that fails and keeping those before it
RECURSIVE ReadChunksMutPartial(_, _, _)
ReadChunksMutPartial(v, pos, chunks) ==
  IF pos >= Len(v) THEN Ok(chunks)
  ELSE LET r == Chunk_try_from(SubSeq(v, pos + 1, Len(v)))
       IN  IF ~r.ok THEN Ok(chunks)
           ELSE ReadChunksMutPartial(v, pos + 12 + Len(r.val.data),
                                     Append(chunks, r.val))

\* as ReadChunks, without the comparison of the stored CRC
RECURSIVE ReadChunksMutNoCrc(_, _, _)
ReadChunksMutNoCrc(v, pos, chunks) ==
  IF pos >= Len(v) THEN Ok(chunks)
  ELSE IF ~CanRead(v, pos, 8) THEN Err("UnexpectedEof")
  ELSE
    LET length == from_be_bytes(Take(v, pos, 4))
        ct     == ChunkType_try_from(Take(v, pos + 4, 4))
    IN  IF ~ct.ok THEN Err(ct.err)
        ELSE IF ~U32AsUsizeLeq(length, Len(v) - (pos + 8))
          THEN Err("UnexpectedEof")
        ELSE
          LET n == U32AsUsize(length)
          IN  IF ~CanRead(v, pos + 8 + n, 4) THEN Err("UnexpectedEof")
              ELSE ReadChunksMutNoCrc(v, pos + 12 + n,
                     Append(chunks, Chunk_new(ct.val, Take(v, pos + 8, n))))

\* the while loop of PNG::try_from, reader at offset pos
RECURSIVE ReadChunks(_, _, _)
ReadChunks(v, pos, chunks) ==
  IF pos >= Len(v) THEN Ok(chunks)
  ELSE IF ~CanRead(v, pos, 4) THEN Err("UnexpectedEof")
  ELSE IF ~CanRead(v, pos + 4, 4) THEN Err("UnexpectedEof")
  ELSE
    LET length == from_be_bytes(Take(v, pos, 4))
        ct     == ChunkType_try_from(Take(v, pos + 4, 4))
    IN  IF ~ct.ok THEN Err(ct.err)
        ELSE IF ~U32AsUsizeLeq(length, Len(v) - (pos + 8))
          THEN Err("UnexpectedEof")
        ELSE
          LET n == U32AsUsize(length)
          IN  IF ~CanRead(v, pos + 8 + n, 4) THEN Err("UnexpectedEof")
              ELSE
                LET crc == from_be_bytes(Take(v, pos + 8 + n, 4))
                    c   == Chunk_new(ct.val, Take(v, pos + 8, n))
                IN  IF c.length # length THEN Err("LengthMismatch")
                    ELSE IF c.crc # crc THEN Err("CrcMismatch")
                    ELSE ReadChunks(v, pos + 12 + n, Append(chunks, c))

\* impl TryFrom<&[u8]> for PNG
PNG_try_from(v) ==
  IF ~CanRead(v, 0, 8) THEN Err("UnexpectedEof")
  ELSE LET signature == Take(v, 0, 8)
       IN  IF signature # STANDARD_HEADER THEN Err("BadSignature")
           ELSE LET chunks == ReadChunks(v, 8, <<>>)
                IN  IF ~chunks.ok THEN Err(chunks.err)
                    ELSE Ok([signature |-> signature, chunks |-> chunks.val])

----------------------------------------------------------------------------
(* The values the operations are explored on *)

StrIHDR == <<73, 72, 68, 82>>
StrIEND == <<73, 69, 78, 68>>
StrruSt == <<114, 117, 83, 116>>
Strrust == <<114, 117, 115, 116>>
StrDigit == <<114, 117, 49, 116>>
StrShort == <<114, 117, 83>>

\* type strings: valid codes, a code with a lowercase third letter, a code
\* with a digit, a string of three letters
TypeStrings == {StrIHDR, StrIEND, StrruSt, Strrust, StrDigit, StrShort}

\* 4-byte buffers for the byte constructor
TypeBytes == {s \in TypeStrings : Len(s) = 4}

\* chunk data: empty, "hi", and "e acute" (two bytes of UTF-8)
DataSet == {<<>>, <<104, 105>>, <<195, 169>>}

\* every chunk type either constructor yields
ChunkTypes ==
  {ChunkType_from_str(s).val : s \in {t \in TypeStrings : ChunkType_from_str(t).ok}}
  \cup
  {ChunkType_try_from(b).val : b \in {t \in TypeBytes : ChunkType_try_from(t).ok}}

\* every chunk Chunk::new yields on them
NewChunks == {Chunk_new(ct, d) : ct \in ChunkTypes, d \in {<<>>, <<104, 105>>}}

\* byte values written over a byte of a well-formed buffer
TamperBytes == {0, 1, 97, 255}

\* every buffer got from b by cutting it short or overwriting one byte
Damaged(b) ==
  {SubSeq(b, 1, n) : n \in 0..(Len(b) - 1)}
  \cup {[b EXCEPT ![i] = t] : i \in 1..Len(b), t \in TamperBytes}

ChunkIHDR == Chunk_new([inner |-> StrIHDR], <<104, 105>>)
ChunkIEND == Chunk_new([inner |-> StrIEND], <<>>)
ChunkruSt == Chunk_new([inner |-> StrruSt], <<195, 169>>)

\* the bytes of an IEND chunk, as every PNG file ends
LiteralIEND == <<0, 0, 0, 0, 73, 69, 78, 68, 174, 66, 96, 130>>

\* the bytes of the IHDR chunk of a 1x1 RGBA image
LiteralIHDR ==
  <<0, 0, 0, 13, 73, 72, 68, 82, 0, 0, 0, 1, 0, 0, 0, 1, 8, 6, 0, 0, 0,
    31, 21, 196, 137>>

\* well-formed files: no chunk, IEND alone, IHDR IEND, IHDR ruSt IEND, and
\* the literal header and end chunks of a real file
GoodFiles ==
  {PNG_as_bytes(PNG_from_chunks(cs)) :
     cs \in {<<>>, <<ChunkIEND>>, <<ChunkIHDR, ChunkIEND>>,
             <<ChunkIHDR, ChunkruSt, ChunkIEND>>}}
  \cup {STANDARD_HEADER \o LiteralIHDR \o LiteralIEND}

BadHeader == <<1, 2, 3, 4, 5, 6, 7, 8>>

\* the buffers handed to PNG::try_from: well-formed files, damaged ones,
\* and files with a wrong signature followed by good or damaged chunks
Inputs ==
  GoodFiles
  \cup UNION {Damaged(b) : b \in GoodFiles}
  \cup {BadHeader \o SubSeq(b, 9, Len(b)) :
          b \in GoodFiles \cup Damaged(PNG_as_bytes(PNG_from_chunks(<<ChunkIHDR, ChunkIEND>>)))}

\* the chunk sequences handed to PNG::from_chunks
SeedChunks ==
  {<<>>} \cup {<<c>> : c \in NewChunks}
  \cup {<<c, ChunkIEND>> : c \in NewChunks}

----------------------------------------------------------------------------
(* Container level: a PNG value and the operations on it *)

Start == [op |-> "start"]

Init ==
  /\ value = <<>>
  /\ chunk = <<>>
  /\ png = <<>>
  /\ fs = <<>>
  /\ last = Start

\* PNG::from_chunks, on a fresh sequence of chunks
FromChunks ==
  /\ last.op = "start"
  /\ \E cs \in SeedChunks :
       /\ png' = <<PNG_from_chunks(cs)>>
       /\ last' = [op |-> "from_chunks", arg |-> cs]
  /\ UNCHANGED <<value, chunk, fs>>

\* PNG::try_from, on an outside buffer or on the bytes as_bytes just returned
TryFrom ==
  /\ last.op \in {"start", "as_bytes"}
  /\ \E v \in (IF last.op = "start" THEN Inputs ELSE {last.out}) :
       LET r == PNG_try_from(v)
       IN  /\ png' = IF r.ok THEN <<r.val>> ELSE png
           /\ last' = [op    |-> "try_from",
                       input |-> v,
                       res   |-> r,
                       src   |-> IF last.op = "as_bytes" THEN <<last.src>> ELSE <<>>]
  /\ UNCHANGED <<value, chunk, fs>>

AppendChunk ==
  /\ png # <<>>
  /\ Len(png[1].chunks) < MaxChunks
  /\ \E c \in NewChunks :
       /\ png' = <<append_chunk(png[1], c)>>
       /\ last' = [op |-> "append_chunk", arg |-> c, before |-> png[1]]
  /\ UNCHANGED <<value, chunk, fs>>

RemoveChunk ==
  /\ png # <<>>
  /\ \E s \in TypeStrings :
       LET r == remove_chunk(png[1], s)
       IN  /\ png' = <<r.png>>
           /\ last' = [op     |-> "remove_chunk",
                       arg    |-> s,
                       before |-> png[1],
                       res    |-> r.res,
                       app    |-> IF last.op = "append_chunk"
                                    THEN <<[arg |-> last.arg, before |-> last.before]>>
                                    ELSE <<>>]
  /\ UNCHANGED <<value, chunk, fs>>

ChunkByType ==
  /\ png # <<>>
  /\ \E s \in TypeStrings :
       /\ last' = [op     |-> "chunk_by_type",
                   arg    |-> s,
                   before |-> png[1],
                   res    |-> chunk_by_type(png[1], s)]
  /\ UNCHANGED <<value, chunk, png, fs>>

AsBytes ==
  /\ png # <<>>
  /\ last' = [op     |-> "as_bytes",
              src    |-> png[1],
              out    |-> PNG_as_bytes(png[1]),
              parsed |-> IF last.op = "try_from" /\ last.res.ok
                           THEN <<last.input>> ELSE <<>>]
  /\ UNCHANGED <<value, chunk, png, fs>>

Next ==
  \/ FromChunks
  \/ TryFrom
  \/ AppendChunk
  \/ RemoveChunk
  \/ ChunkByType
  \/ AsBytes

Spec == Init /\ [][Next]_vars

----------------------------------------------------------------------------
(* Chunk level: a Chunk value, built, serialized and parsed *)

\* the serialized form of every chunk with a valid type code
SerializedChunks ==
  {Chunk_as_bytes(Chunk_new(ChunkType_try_from(b).val, d)) :
     b \in {t \in TypeBytes : ChunkType_try_from(t).ok}, d \in DataSet}
  \cup {LiteralIEND, LiteralIHDR}

\* the buffers handed to Chunk::try_from: well-formed chunks, damaged ones,
\* and well-formed ones followed by more bytes
ChunkInputs ==
  SerializedChunks
  \cup UNION {Damaged(b) : b \in SerializedChunks}
  \cup {b \o LiteralIEND : b \in SerializedChunks}

InitChunk ==
  /\ value \in ChunkInputs
  /\ chunk = <<>>
  /\ png = <<>>
  /\ fs = <<>>
  /\ last = Start

\* ChunkType::from_str, then Chunk::new on its value
NewFromStr ==
  /\ last.op = "start"
  /\ \E s \in TypeStrings, d \in DataSet :
       LET ct == ChunkType_from_str(s)
       IN  /\ chunk' = IF ct.ok THEN <<Chunk_new(ct.val, d)>> ELSE chunk
           /\ last' = [op |-> "new", via |-> "from_str", arg |-> s,
                       data |-> d, type |-> ct]
  /\ UNCHANGED <<value, png, fs>>

\* ChunkType::try_from, then Chunk::new on its value
NewFromBytes ==
  /\ last.op = "start"
  /\ \E b \in TypeBytes, d \in DataSet :
       LET ct == ChunkType_try_from(b)
       IN  /\ chunk' = IF ct.ok THEN <<Chunk_new(ct.val, d)>> ELSE chunk
           /\ last' = [op |-> "new", via |-> "try_from", arg |-> b,
                       data |-> d, type |-> ct]
  /\ UNCHANGED <<value, png, fs>>

ChunkAsBytes ==
  /\ chunk # <<>>
  /\ value' = Chunk_as_bytes(chunk[1])
  /\ last' = [op |-> "as_bytes", src |-> chunk[1]]
  /\ UNCHANGED <<chunk, png, fs>>

ChunkTryFrom ==
  /\ last.op \in {"start", "as_bytes"}
  /\ LET r == Chunk_try_from(value)
     IN  /\ chunk' = IF r.ok THEN <<r.val>> ELSE chunk
         /\ last' = [op    |-> "try_from",
                     input |-> value,
                     res   |-> r,
                     src   |-> IF last.op = "as_bytes" THEN <<last.src>> ELSE <<>>]
  /\ UNCHANGED <<value, png, fs>>

NextChunk ==
  \/ NewFromStr
  \/ NewFromBytes
  \/ ChunkAsBytes
  \/ ChunkTryFrom

ChunkSpec == InitChunk /\ [][NextChunk]_vars

----------------------------------------------------------------------------
(* Shell level: main.rs, one run of the program per step *)

Paths == {"a.png", "b.png"}

\* the type strings and the messages given on the command line
CliTypes == {StrruSt, Strrust, StrDigit}

CliMessages == {<<104, 105>>, <<195, 169>>}

\* the files the program is started on
MainInputs ==
  {STANDARD_HEADER \o LiteralIEND,
   STANDARD_HEADER \o LiteralIHDR \o LiteralIEND,
   BadHeader \o LiteralIEND,
   STANDARD_HEADER \o SubSeq(LiteralIEND, 1, 10)}

\* Write::write_all at offset 0 of a file that holds old
WriteAll(old, bytes) == bytes \o SubSeq(old, Len(bytes) + 1, Len(old))

\* File::set_len
SetLen(old, n) ==
  IF n <= Len(old) THEN SubSeq(old, 1, n)
  ELSE old \o [i \in 1..(n - Len(old)) |-> 0]

\* main up to the match: open the file, read it whole, parse it
MainLoad(f, path) ==
  IF f[path] = <<>> THEN Err("Io")
  ELSE LET p == PNG_try_from(f[path][1])
       IN  IF ~p.ok THEN Err(p.err) ELSE Ok(p.val)

\* Command::Encode, p being what MainLoad returned; returns main's Result and
\* the files as the run leaves them
MainEncodeArm(f, path, p, chunk_type, message, output) ==
  IF ~p.ok THEN [res |-> Err(p.err), fs |-> f]
  ELSE
    LET ct == ChunkType_from_str(chunk_type)
    IN  IF ~ct.ok THEN [res |-> Err(ct.err), fs |-> f]
        ELSE
          LET bytes == PNG_as_bytes(append_chunk(p.val, Chunk_new(ct.val, message)))
          IN  IF output # <<>>
                THEN [res |-> Ok(<<>>),
                      fs  |-> [f EXCEPT ![output[1]] = <<bytes>>]]
                ELSE [res |-> Ok(<<>>),
                      fs  |-> [f EXCEPT ![path] = <<WriteAll(f[path][1], bytes)>>]]

\* Command::Decode; returns main's Result, holding the line printed if any
MainDecodeArm(p, chunk_type) ==
  IF ~p.ok THEN Err(p.err)
  ELSE
    LET msg_chunk == chunk_by_type(p.val, chunk_type)
    IN  IF msg_chunk # <<>>
          THEN LET text == String_from_utf8(msg_chunk[1].data)
               IN  IF ~text.ok THEN Err(text.err) ELSE Ok(<<text.val>>)
          ELSE Ok(<<>>)

\* Command::Remove
MainRemoveArm(f, path, p, chunk_type) ==
  IF ~p.ok THEN [res |-> Err(p.err), fs |-> f]
  ELSE
    LET r == remove_chunk(p.val, chunk_type)
    IN  IF ~r.res.ok THEN [res |-> Err(r.res.err), fs |-> f]
        ELSE
          LET bytes == PNG_as_bytes(r.png)
          IN  [res |-> Ok(<<>>),
               fs  |-> [f EXCEPT ![path] =
                          <<WriteAll(SetLen(f[path][1], Len(bytes)), bytes)>>]]

\* Command::Print
MainPrintArm(f, path, p) ==
  IF ~p.ok THEN Err(p.err) ELSE Ok(<<f[path][1]>>)

InitMain ==
  /\ value = <<>>
  /\ chunk = <<>>
  /\ png = <<>>
  /\ \E b \in MainInputs : fs = [p \in Paths |-> IF p = "a.png" THEN <<b>> ELSE <<>>]
  /\ last = Start

\* one run of `encode`, on a file of fewer than MaxFileChunks chunks
MainEncode ==
  \E path \in Paths :
    LET p == MainLoad(fs, path)
    IN  /\ p.ok => Len(p.val.chunks) < MaxFileChunks
        /\ \E chunk_type \in CliTypes, message \in CliMessages,
              output \in {<<>>, <<"b.png">>} :
             LET r == MainEncodeArm(fs, path, p, chunk_type, message, output)
             IN  /\ fs' = r.fs
                 /\ last' = [op         |-> "encode",
                             path       |-> path,
                             chunk_type |-> chunk_type,
                             message    |-> message,
                             written    |-> IF output # <<>> THEN output[1] ELSE path,
                             before     |-> fs[path],
                             res        |-> r.res]
        /\ UNCHANGED <<value, chunk, png>>

\* one run of `decode`
MainDecode ==
  \E path \in Paths :
    LET p == MainLoad(fs, path)
    IN  /\ \E chunk_type \in CliTypes :
             last' = [op         |-> "decode",
                      path       |-> path,
                      chunk_type |-> chunk_type,
                      res        |-> MainDecodeArm(p, chunk_type),
                      enc        |-> IF last.op = "encode" /\ last.res.ok
                                        /\ last.written = path
                                       THEN <<[chunk_type |-> last.chunk_type,
                                               message    |-> last.message,
                                               before     |-> last.before]>>
                                       ELSE <<>>]
        /\ UNCHANGED <<value, chunk, png, fs>>

\* one run of `remove`
MainRemove ==
  \E path \in Paths :
    LET p == MainLoad(fs, path)
    IN  /\ \E chunk_type \in CliTypes :
             LET r == MainRemoveArm(fs, path, p, chunk_type)
             IN  /\ fs' = r.fs
                 /\ last' = [op         |-> "remove",
                             path       |-> path,
                             chunk_type |-> chunk_type,
                             before     |-> fs[path],
                             res        |-> r.res]
        /\ UNCHANGED <<value, chunk, png>>

\* one run of `print`
MainPrint ==
  \E path \in Paths :
    /\ last' = [op |-> "print", path |-> path,
                res |-> MainPrintArm(fs, path, MainLoad(fs, path))]
    /\ UNCHANGED <<value, chunk, png, fs>>

NextMain ==
  \/ MainEncode
  \/ MainDecode
  \/ MainRemove
  \/ MainPrint

MainSpec == InitMain /\ [][NextMain]_vars

----------------------------------------------------------------------------
(* Properties of the chunk level (ChunkSpec) *)

SameChunk(a, b) ==
  /\ a.chunk_type.inner = b.chunk_type.inner
  /\ a.data = b.data
  /\ a.length = b.length
  /\ a.crc = b.crc

\* C1: a chunk built by Chunk::new, serialized and parsed again, parses
\* successfully into a chunk of the same type, data, length and CRC.
C1_ChunkRoundTrip ==
  (last.op = "try_from" /\ last.src # <<>>)
    => (last.res.ok /\ SameChunk(last.res.val, last.src[1]))

\* v is a well-formed serialized chunk cut short by the caller
Truncated(v) ==
  \E b \in SerializedChunks : Len(v) < Len(b) /\ v = SubSeq(b, 1, Len(v))

\* the type code bytes of v are four letters, the third one uppercase
TypeCodeLegal(v) ==
  /\ \A i \in 5..8 : (v[i] \in 65..90) \/ (v[i] \in 97..122)
  /\ v[7] \in 65..90

\* v holds the 12 bytes of the fixed fields and the declared number of data bytes
AllFieldsPresent(v) ==
  /\ Len(v) >= 8
  /\ v[1] < 128
  /\ v[1] * 16777216 + v[2] * 65536 + v[3] * 256 + v[4] <= Len(v) - 12

DeclaredLength(v) == v[1] * 16777216 + v[2] * 65536 + v[3] * 256 + v[4]

\* the CRC field of v holds the CRC-32 of its type code and data bytes
StoredCrcRight(v) ==
  LET n == DeclaredLength(v)
  IN  SubSeq(v, 9 + n, 12 + n) =
        to_be_bytes(HasherFinalize(HasherUpdate(HasherNew, SubSeq(v, 5, 8 + n))))

\* C9 as stated: a buffer the caller truncated fails with LengthMismatch.
C9_TruncatedIsLengthMismatch ==
  (last.op = "try_from" /\ Truncated(last.input))
    => Failed(last.res, "LengthMismatch")

\* C9 as amended: Chunk::try_from fails with UnexpectedEof exactly when a read
\* step lacks bytes (so on every truncated buffer), with CrcMismatch exactly
\* when all fields are read, the type code is legal and the stored CRC differs
\* from the recomputed one, and never with LengthMismatch.
C9_ErrorClassification ==
  (last.op = "try_from") =>
    LET v == last.input
        r == last.res
    IN  /\ ~Failed(r, "LengthMismatch")
        /\ Truncated(v) => Failed(r, "UnexpectedEof")
        /\ Failed(r, "UnexpectedEof")
             <=> (Len(v) < 8 \/ (TypeCodeLegal(v) /\ ~AllFieldsPresent(v)))
        /\ Failed(r, "CrcMismatch")
             <=> (AllFieldsPresent(v) /\ TypeCodeLegal(v) /\ ~StoredCrcRight(v))

\* a truncated buffer whose type code was read has been parsed
C9_Witness ==
  /\ last.op = "try_from"
  /\ Truncated(last.input)
  /\ Len(last.input) >= 8
  /\ Failed(last.res, "UnexpectedEof")

----------------------------------------------------------------------------
(* Properties of the container level (Spec) *)

SameChunks(a, b) ==
  /\ Len(a) = Len(b)
  /\ \A i \in 1..Len(a) : SameChunk(a[i], b[i])

\* C2: a container that is serialized and parsed again parses successfully
\* into a container of the same signature and the same chunk sequence.
C2_ContainerRoundTrip ==
  (last.op = "try_from" /\ last.src # <<>>)
    => /\ last.res.ok
       /\ last.res.val.signature = last.src[1].signature
       /\ SameChunks(last.res.val.chunks, last.src[1].chunks)

TypeOccurs(chunks, t) == \E i \in 1..Len(chunks) : chunks[i].chunk_type.inner = t

\* the remove_chunk just done names the type of the chunk appended right before
\* it, and that type did not occur in the sequence before the append
C4_Case ==
  /\ last.op = "remove_chunk"
  /\ last.app # <<>>
  /\ last.arg = ChunkType_to_string(last.app[1].arg.chunk_type)
  /\ ~TypeOccurs(last.app[1].before.chunks, last.app[1].arg.chunk_type.inner)

\* C4: append_chunk(c) then remove_chunk(type of c), the type not occurring
\* before, returns c and leaves the chunk sequence as it was before the append.
C4_AppendRemoveInverse ==
  C4_Case => /\ last.res.ok
             /\ last.res.val = last.app[1].arg
             /\ png[1].chunks = last.app[1].before.chunks

C4_Witness == C4_Case /\ Len(last.app[1].before.chunks) >= 2

\* C5: append_chunk on n > 0 chunks puts c at index n-1 and the former last
\* chunk at index n, the chunks before keep their places; on no chunk it
\* yields [c].
C5_AppendPosition ==
  (last.op = "append_chunk") =>
    LET b == last.before.chunks
        a == png[1].chunks
        n == Len(b)
    IN  IF n = 0 THEN a = <<last.arg>>
        ELSE /\ Len(a) = n + 1
             /\ a[n] = last.arg
             /\ a[n + 1] = b[n]
             /\ \A i \in 1..(n - 1) : a[i] = b[i]

\* a chunk of another type was appended to two or more chunks ending in IEND
C5_Witness ==
  /\ last.op = "append_chunk"
  /\ Len(last.before.chunks) >= 2
  /\ last.before.chunks[Len(last.before.chunks)].chunk_type.inner = StrIEND
  /\ last.arg.chunk_type.inner # StrIEND
  /\ png[1].chunks[Len(png[1].chunks)].chunk_type.inner = StrIEND

\* the string is four ASCII letters
FourLetters(s) ==
  Len(s) = 4 /\ \A i \in 1..4 : (s[i] \in 65..90) \/ (s[i] \in 97..122)

\* C6: remove_chunk(s) fails with the string constructor's error when s is
\* rejected, with NotFound when no chunk has the type, both leaving the
\* sequence as it was; else it removes and returns the chunk of lowest index
\* of that type and keeps all other chunks in their order.
C6_RemoveFirst ==
  (last.op = "remove_chunk") =>
    LET b == last.before.chunks
        a == png[1].chunks
        s == last.arg
    IN  IF ~FourLetters(s)
          THEN /\ ~last.res.ok
               /\ last.res.err \in {"WrongLength", "InvalidCharacter"}
               /\ a = b
        ELSE IF ~TypeOccurs(b, s)
          THEN Failed(last.res, "NotFound") /\ a = b
        ELSE \E i \in 1..Len(b) :
               /\ b[i].chunk_type.inner = s
               /\ \A j \in 1..(i - 1) : b[j].chunk_type.inner # s
               /\ last.res.ok
               /\ last.res.val = b[i]
               /\ Len(a) = Len(b) - 1
               /\ \A j \in 1..(i - 1) : a[j] = b[j]
               /\ \A j \in i..(Len(b) - 1) : a[j] = b[j + 1]

\* a chunk was removed from before a later chunk of the same type and another
C6_Witness ==
  /\ last.op = "remove_chunk"
  /\ last.res.ok
  /\ TypeOccurs(png[1].chunks, last.arg)
  /\ Len(png[1].chunks) >= 2
  /\ last.before.chunks[1] = last.res.val

\* C7: chunk_by_type(s) leaves the sequence alone, returns a chunk exactly
\* when remove_chunk(s) would succeed, and then the chunk it would remove.
C7_LookupAgreesWithRemove ==
  (last.op = "chunk_by_type") =>
    LET r == remove_chunk(last.before, last.arg)
    IN  /\ png[1] = last.before
        /\ (last.res # <<>>) <=> r.res.ok
        /\ r.res.ok => last.res = <<r.res.val>>

\* a lookup returned the first of two different chunks of the type
C7_Witness ==
  /\ last.op = "chunk_by_type"
  /\ last.res # <<>>
  /\ \E i \in 1..Len(png[1].chunks) :
       /\ png[1].chunks[i].chunk_type.inner = last.arg
       /\ png[1].chunks[i] # last.res[1]

\* chunk by chunk with Chunk::try_from: the chunks of the buffer, or the
\* error of the first chunk that fails
RECURSIVE ChunkByChunk(_, _)
ChunkByChunk(rest, acc) ==
  IF rest = <<>> THEN Ok(acc)
  ELSE LET r == Chunk_try_from(rest)
       IN  IF ~r.ok THEN r
           ELSE ChunkByChunk(SubSeq(rest, 13 + Len(r.val.data), Len(rest)),
                             Append(acc, r.val))

\* C8: PNG::try_from on 8 bytes or more fails with BadSignature when the
\* first 8 are not the PNG signature, whatever follows; else it yields the
\* chunks read left to right to the end of the buffer, or the error of the
\* first chunk that fails and no container.
C8_AllOrNothing ==
  (last.op = "try_from" /\ Len(last.input) >= 8) =>
    LET v == last.input
        r == last.res
    IN  IF SubSeq(v, 1, 8) # <<137, 80, 78, 71, 13, 10, 26, 10>>
          THEN Failed(r, "BadSignature")
        ELSE LET ref == ChunkByChunk(SubSeq(v, 9, Len(v)), <<>>)
             IN  IF ref.ok
                   THEN /\ r.ok
                        /\ r.val.signature = SubSeq(v, 1, 8)
                        /\ r.val.chunks = ref.val
                        /\ png = <<r.val>>
                   ELSE /\ Failed(r, ref.err)
                        /\ (last.src = <<>> => png = <<>>)

\* a buffer whose first chunk is sound and whose later chunk has a wrong CRC
C8_Witness ==
  /\ last.op = "try_from"
  /\ Len(last.input) >= 20
  /\ SubSeq(last.input, 1, 8) = STANDARD_HEADER
  /\ Chunk_try_from(SubSeq(last.input, 9, Len(last.input))).ok
  /\ Failed(last.res, "CrcMismatch")
  /\ png = <<>>

\* C10: as_bytes on a container just parsed from a buffer returns that buffer.
C10_ByteExact ==
  (last.op = "as_bytes" /\ last.parsed # <<>>) => last.out = last.parsed[1]

\* a parsed file of two chunks or more, one with data, was serialized
C10_Witness ==
  /\ last.op = "as_bytes"
  /\ last.parsed # <<>>
  /\ Len(last.src.chunks) >= 2
  /\ \E i \in 1..Len(last.src.chunks) : last.src.chunks[i].data # <<>>

----------------------------------------------------------------------------
(* Properties of the shell level (MainSpec) *)

\* the decode just run names the type of the encode run right before it on
\* the file it wrote, and the encoded file parsed into chunks ending in IEND,
\* none of them of that type
C3_Case ==
  /\ last.op = "decode"
  /\ last.enc # <<>>
  /\ last.chunk_type = last.enc[1].chunk_type
  /\ LET p == PNG_try_from(last.enc[1].before[1])
     IN  /\ p.ok
         /\ p.val.chunks # <<>>
         /\ p.val.chunks[Len(p.val.chunks)].chunk_type.inner = StrIEND
         /\ ~TypeOccurs(p.val.chunks, last.chunk_type)

\* C3: encode of message m under type T, then decode of T, succeeds and
\* prints exactly m.
C3_EncodeThenDecode ==
  C3_Case => (last.res.ok /\ last.res.val = <<last.enc[1].message>>)

====
